---- MODULE Spec2Model ----
(***************************************************************************)
(* Model of src/src/synthetic_raster_spectral_signature.py: a script that  *)
(* synthesises a (6, 3, 3) reflectance raster, extracts one pixel's        *)
(* spectrum, writes it to CSV and PNG, reports NDVI and band statistics.   *)
(*                                                                         *)
(* Numbers are fixed point.  Reflectance is an integer count of 1e-5       *)
(* (ONE = 100000 is reflectance 1.0); coordinates are integer counts of    *)
(* 1e-6 degree.  A quotient that the script keeps as a float (NDVI, mean)  *)
(* is kept exact as numerator/denominator, and a float division by zero    *)
(* gives nan or inf as numpy's float64 does.                               *)
(***************************************************************************)
EXTENDS Integers, Sequences, FiniteSets, TLC

\* ---------------------------------------------------------------- bounds
\* Length of the cycle of the modelled normal-variate stream.
RngPeriod == 4
\* Magnitude of an extreme noise draw (1.0 reflectance), enough to clip.
BigNoise == 100000
\* rowcol_to_xy is applied to every row and col in -MaxIdx .. MaxIdx.
MaxIdx == 3

\* ------------------------------------------------------ program constants
BANDS == <<"Blue", "Green", "Red", "NIR", "SWIR1", "SWIR2">>
WAVELENGTH_NM == <<490, 560, 665, 865, 1610, 2200>>
N_BANDS == Len(BANDS)
ROWS == 3
COLS == 3
BASE == <<12000, 18000, 22000, 46000, 31000, 27000>>
SEED == 42
ONE == 100000
CRS == "EPSG:4326"
X0 == -59000000
Y0 == 15000000
XRES == 10000
YRES == 10000
PIXEL_ROW == 1
PIXEL_COL == 2
csv_path == "data/synthetic_pixel_spectrum.csv"
png_path == "spectral_signature.png"

Runs == {1, 2}
BandIdx == 0 .. (N_BANDS - 1)
RowIdx == 0 .. (ROWS - 1)
ColIdx == 0 .. (COLS - 1)
NoiseVals == {-BigNoise, 187, BigNoise}

\* stream  the normal variates the library's generator yields, by position
\*         (line 24); the same function in every run
\* rng     each run's generator position (line 19)
\* raster  each run's raster[band][row][col] (lines 20-27)
\* b       each run's loop index (lines 22, 97)
\* pc      each run's position in the script
\* df      each run's sorted spectrum frame (lines 57-59)
\* lonlat  each run's lon, lat (line 55)
\* ndvi    each run's ndvi (line 89)
\* stats   each run's band statistics computed so far (lines 97-101)
\* out     each run's prints, file writes and display, in order
\* err     the file write whose exception ended the run, or "none"
\* geo     arguments and result of one call of rowcol_to_xy (lines 39-46)
VARIABLES stream, rng, raster, b, pc, df, lonlat, ndvi, stats, out, err, geo

vars == <<stream, rng, raster, b, pc, df, lonlat, ndvi, stats, out, err, geo>>

\* ---------------------------------------------------------- pure helpers
\* Round n/d (d > 0) to the nearest integer, ties to even, as the format
\* specifiers .4f and .5f round.
RoundDiv(n, d) ==
    LET q == n \div d
        r == n % d
    IN  IF 2 * r < d THEN q
        ELSE IF 2 * r > d THEN q + 1
        ELSE IF q % 2 = 0 THEN q ELSE q + 1

\* f"{x:.5f}" of a coordinate: count of 1e-5 degree.
Format5(x) == RoundDiv(x, 10)

\* f"{x:.4f}" of a reflectance: count of 1e-4.
Format4(x) == RoundDiv(x, 10)

ClipLowerMissing(x, lo, hi) == IF x > hi THEN hi ELSE x

\* np.clip on one element.
Clip(x, lo, hi) == IF x < lo THEN lo ELSE IF x > hi THEN hi ELSE x

DefaultRngUnseeded(seed, entropy) == entropy % RngPeriod

\* np.random.default_rng(seed): the generator's position in the stream is a
\* function of the seed alone; OS entropy is used only when no seed is given
\* (a negative seed stands for None).
DefaultRng(seed, entropy) ==
    IF seed < 0 THEN entropy % RngPeriod ELSE seed % RngPeriod

\* rng.normal(0, 0.002, size=(ROWS, COLS)) from generator position s: the
\* variates are consumed in row-major order.
Normal(s) ==
    [i \in RowIdx |-> [j \in ColIdx |-> stream[(s + i * COLS + j) % RngPeriod]]]

\* (np.arange(ROWS).reshape(-1, 1) * 0.01) + (np.arange(COLS) * 0.005)
Grad == [i \in RowIdx |-> [j \in ColIdx |-> i * 1000 + j * 500]]

rowcol_to_xy_signflip(row, col, x0, y0, xres, yres, center) ==
    IF center
    THEN <<x0 + ((2 * col + 1) * xres) \div 2, y0 + ((2 * row + 1) * yres) \div 2>>
    ELSE <<x0 + col * xres, y0 + row * yres>>

\* (col + 0.5) * xres is ((2 * col + 1) * xres) / 2; resolutions are even
\* counts of 1e-6 degree, so the halving is exact.
rowcol_to_xy(row, col, x0, y0, xres, yres, center) ==
    IF center
    THEN <<x0 + ((2 * col + 1) * xres) \div 2, y0 - ((2 * row + 1) * yres) \div 2>>
    ELSE <<x0 + col * xres, y0 - row * yres>>

\* raster[:, row, col]: one reflectance per band, in registry order.
pixel_spectrum_transposed(ras, row, col) ==
    [k \in 1 .. N_BANDS |-> ras[k - 1][col][row]]

pixel_spectrum(ras, row, col) ==
    [k \in 1 .. N_BANDS |-> ras[k - 1][row][col]]

\* pd.DataFrame({"Band": ..., "Wavelength_nm": ..., "Reflectance": ...})
DataFrame(bands, wl, refl) ==
    [k \in 1 .. Len(bands) |->
        [Band |-> bands[k], Wavelength_nm |-> wl[k], Reflectance |-> refl[k]]]

\* Insert one row into a frame already ascending by Wavelength_nm.
RECURSIVE Insert(_, _)
Insert(row, frame) ==
    IF frame = <<>> THEN <<row>>
    ELSE IF row.Wavelength_nm < Head(frame).Wavelength_nm
         THEN <<row>> \o frame
         ELSE <<Head(frame)>> \o Insert(row, Tail(frame))

RECURSIVE InsertDescending(_, _)
InsertDescending(row, frame) ==
    IF frame = <<>> THEN <<row>>
    ELSE IF row.Wavelength_nm > Head(frame).Wavelength_nm
         THEN <<row>> \o frame
         ELSE <<Head(frame)>> \o InsertDescending(row, Tail(frame))

RECURSIVE sort_values_descending(_)
sort_values_descending(frame) ==
    IF frame = <<>> THEN <<>>
    ELSE InsertDescending(Head(frame), sort_values_descending(Tail(frame)))

\* df.sort_values("Wavelength_nm"): whole rows, ascending by the key.
RECURSIVE sort_values(_)
sort_values(frame) ==
    IF frame = <<>> THEN <<>>
    ELSE Insert(Head(frame), sort_values(Tail(frame)))

\* The spectrum of pixel (row, col): lines 53 and 57-59.
Spectrum(ras, row, col) ==
    sort_values(DataFrame(BANDS, WAVELENGTH_NM, pixel_spectrum(ras, row, col)))

LocByPosition(frame, name) ==
    LET k == CHOOSE n \in 1 .. Len(BANDS) : BANDS[n] = name
    IN  <<frame[(k % Len(frame)) + 1]>>

\* df.loc[df["Band"] == name]: the rows whose band name matches.
Loc(frame, name) == SelectSeq(frame, LAMBDA row : row.Band = name)

DivideGuarded(a, c) ==
    IF c = 0 THEN [kind |-> "num", num |-> 0, den |-> 1]
    ELSE [kind |-> "num", num |-> a, den |-> c]

\* a / c on numpy float64 scalars: no exception on a zero divisor.
Divide(a, c) ==
    IF c # 0 THEN [kind |-> "num", num |-> a, den |-> c]
    ELSE IF a = 0 THEN [kind |-> "nan", num |-> 0, den |-> 0]
    ELSE IF a > 0 THEN [kind |-> "inf", num |-> 0, den |-> 0]
    ELSE [kind |-> "-inf", num |-> 0, den |-> 0]

\* f"{ndvi:.4f}": count of 1e-4, or the text nan / inf.
FormatNdvi(v) ==
    IF v.kind # "num" THEN [kind |-> v.kind, val |-> 0]
    ELSE IF v.den > 0 THEN [kind |-> "num", val |-> RoundDiv(v.num * 10000, v.den)]
    ELSE [kind |-> "num", val |-> RoundDiv((0 - v.num) * 10000, 0 - v.den)]

BandValues(band) == {band[i][j] : i \in RowIdx, j \in ColIdx}

\* band_data.min()
BandMin(band) == CHOOSE v \in BandValues(band) : \A w \in BandValues(band) : v <= w

\* band_data.max()
BandMax(band) == CHOOSE v \in BandValues(band) : \A w \in BandValues(band) : v >= w

RECURSIVE SumFrom(_, _)
SumFrom(band, k) ==
    IF k = ROWS * COLS THEN 0
    ELSE band[k \div COLS][k % COLS] + SumFrom(band, k + 1)

BandMeanOverRow(band) == [num |-> SumFrom(band, 0), den |-> COLS]

\* band_data.mean(): the sum of all elements over their count.
BandMean(band) == [num |-> SumFrom(band, 0), den |-> ROWS * COLS]

\* One line of the statistics report, each number formatted .4f.
StatLine(name, band) ==
    [band |-> name,
     min |-> Format4(BandMin(band)),
     max |-> Format4(BandMax(band)),
     mean |-> RoundDiv(BandMean(band).num, BandMean(band).den * 10)]

Zeros == [k \in BandIdx |-> [i \in RowIdx |-> [j \in ColIdx |-> 0]]]

Event(name, data) == [ev |-> name, data |-> data]

\* The rows of a frame as written by to_csv(index=False) under its header.
CsvText(frame) ==
    <<<<"Band", "Wavelength_nm", "Reflectance">>>> \o
    [k \in 1 .. Len(frame) |->
        <<frame[k].Band, frame[k].Wavelength_nm, frame[k].Reflectance>>]

\* The rows of a frame as printed by to_string(index=False): reflectance is
\* shown with six decimals (a count of 1e-6).
TableText(frame) ==
    [k \in 1 .. Len(frame) |->
        <<frame[k].Band, frame[k].Wavelength_nm, frame[k].Reflectance * 10>>]

\* ------------------------------------------------------------- the script
Emit(r, events) == out' = [out EXCEPT ![r] = out[r] \o events]

\* Lines 19-20: the generator is seeded once, the raster starts as zeros.
\* The entropy the operating system would supply differs from run to run.
Start(r) ==
    /\ pc[r] = "start"
    /\ \E entropy \in 0 .. (RngPeriod - 1) :
          rng' = [rng EXCEPT ![r] = DefaultRng(SEED, entropy)]
    /\ raster' = [raster EXCEPT ![r] = Zeros]
    /\ b' = [b EXCEPT ![r] = 0]
    /\ pc' = [pc EXCEPT ![r] = "fill"]
    /\ UNCHANGED <<stream, df, lonlat, ndvi, stats, out, err, geo>>

\* Lines 22-25: one iteration of the band loop, drawing ROWS * COLS variates.
FillBand(r) ==
    /\ pc[r] = "fill"
    /\ b[r] < N_BANDS
    /\ LET noise == Normal(rng[r])
       IN  raster' = [raster EXCEPT ![r][b[r]] =
                [i \in RowIdx |-> [j \in ColIdx |->
                    BASE[b[r] + 1] + Grad[i][j] + noise[i][j]]]]
    /\ rng' = [rng EXCEPT ![r] = (rng[r] + ROWS * COLS) % RngPeriod]
    /\ b' = [b EXCEPT ![r] = b[r] + 1]
    /\ pc' = [pc EXCEPT ![r] = IF b[r] + 1 = N_BANDS THEN "clip" ELSE "fill"]
    /\ UNCHANGED <<stream, df, lonlat, ndvi, stats, out, err, geo>>

\* Lines 27-29: clip every element into [0, 1] and print the shape.
ClipRaster(r) ==
    /\ pc[r] = "clip"
    /\ raster' = [raster EXCEPT ![r] =
            [k \in BandIdx |-> [i \in RowIdx |-> [j \in ColIdx |->
                Clip(raster[r][k][i][j], 0, ONE)]]]]
    /\ Emit(r, <<Event("shape", <<N_BANDS, ROWS, COLS>>)>>)
    /\ pc' = [pc EXCEPT ![r] = "extract"]
    /\ UNCHANGED <<stream, rng, b, df, lonlat, ndvi, stats, err, geo>>

\* Lines 52-59: slice the pixel, georeference it, build the sorted frame.
ExtractSpectrum(r) ==
    /\ pc[r] = "extract"
    /\ lonlat' = [lonlat EXCEPT ![r] =
            rowcol_to_xy(PIXEL_ROW, PIXEL_COL, X0, Y0, XRES, YRES, TRUE)]
    /\ df' = [df EXCEPT ![r] = Spectrum(raster[r], PIXEL_ROW, PIXEL_COL)]
    /\ pc' = [pc EXCEPT ![r] = "print"]
    /\ UNCHANGED <<stream, rng, raster, b, ndvi, stats, out, err, geo>>

\* Lines 61-63: the CRS line, the coordinate line and the table.
PrintSpectrum(r) ==
    /\ pc[r] = "print"
    /\ Emit(r, <<Event("crs", CRS),
                 Event("coord", <<PIXEL_ROW, PIXEL_COL,
                                  Format5(lonlat[r][1]), Format5(lonlat[r][2])>>),
                 Event("table", TableText(df[r]))>>)
    /\ pc' = [pc EXCEPT ![r] = "csv"]
    /\ UNCHANGED <<stream, rng, raster, b, df, lonlat, ndvi, stats, err, geo>>

SaveCsvSwallowError(r) ==
    /\ pc[r] = "csv"
    /\ \E ok \in BOOLEAN :
          IF ok
          THEN /\ Emit(r, <<Event("csv_file", CsvText(df[r]))>>)
               /\ err' = err
          ELSE /\ out' = out
               /\ err' = [err EXCEPT ![r] = "csv"]
    /\ pc' = [pc EXCEPT ![r] = "csvmsg"]
    /\ UNCHANGED <<stream, rng, raster, b, df, lonlat, ndvi, stats, geo>>

\* Line 67: df.to_csv(csv_path, index=False).  The write either completes or
\* raises (missing data/ directory, permissions); nothing catches it.
SaveCsv(r) ==
    /\ pc[r] = "csv"
    /\ \E ok \in BOOLEAN :
          IF ok
          THEN /\ Emit(r, <<Event("csv_file", CsvText(df[r]))>>)
               /\ pc' = [pc EXCEPT ![r] = "csvmsg"]
               /\ err' = err
          ELSE /\ out' = out
               /\ pc' = [pc EXCEPT ![r] = "error"]
               /\ err' = [err EXCEPT ![r] = "csv"]
    /\ UNCHANGED <<stream, rng, raster, b, df, lonlat, ndvi, stats, geo>>

\* Line 68: the CSV save confirmation.
ConfirmCsv(r) ==
    /\ pc[r] = "csvmsg"
    /\ Emit(r, <<Event("csv_msg", csv_path)>>)
    /\ pc' = [pc EXCEPT ![r] = "plot"]
    /\ UNCHANGED <<stream, rng, raster, b, df, lonlat, ndvi, stats, err, geo>>

SavePlotConfirmFirst(r) ==
    /\ pc[r] = "plot"
    /\ \E ok \in BOOLEAN :
          IF ok
          THEN /\ Emit(r, <<Event("png_msg", png_path),
                            Event("png_file",
                               [k \in 1 .. Len(df[r]) |->
                                  <<df[r][k].Wavelength_nm, df[r][k].Reflectance>>])>>)
               /\ pc' = [pc EXCEPT ![r] = "show"]
               /\ err' = err
          ELSE /\ out' = out
               /\ pc' = [pc EXCEPT ![r] = "error"]
               /\ err' = [err EXCEPT ![r] = "png"]
    /\ UNCHANGED <<stream, rng, raster, b, df, lonlat, ndvi, stats, geo>>

\* Lines 73-80: draw the figure from the frame's two numeric columns and
\* save it; the save either completes or raises.
SavePlot(r) ==
    /\ pc[r] = "plot"
    /\ \E ok \in BOOLEAN :
          IF ok
          THEN /\ Emit(r, <<Event("png_file",
                               [k \in 1 .. Len(df[r]) |->
                                  <<df[r][k].Wavelength_nm, df[r][k].Reflectance>>])>>)
               /\ pc' = [pc EXCEPT ![r] = "plotmsg"]
               /\ err' = err
          ELSE /\ out' = out
               /\ pc' = [pc EXCEPT ![r] = "error"]
               /\ err' = [err EXCEPT ![r] = "png"]
    /\ UNCHANGED <<stream, rng, raster, b, df, lonlat, ndvi, stats, geo>>

\* Line 81: the plot save confirmation.
ConfirmPlot(r) ==
    /\ pc[r] = "plotmsg"
    /\ Emit(r, <<Event("png_msg", png_path)>>)
    /\ pc' = [pc EXCEPT ![r] = "show"]
    /\ UNCHANGED <<stream, rng, raster, b, df, lonlat, ndvi, stats, err, geo>>

\* Line 82: plt.show() returns when the display is done.
ShowPlot(r) ==
    /\ pc[r] = "show"
    /\ Emit(r, <<Event("show", png_path)>>)
    /\ pc' = [pc EXCEPT ![r] = "ndvi"]
    /\ UNCHANGED <<stream, rng, raster, b, df, lonlat, ndvi, stats, err, geo>>

\* Lines 87-91: look NIR and Red up by band name, divide, print.
ComputeNdvi(r) ==
    /\ pc[r] = "ndvi"
    /\ LET nir == Loc(df[r], "NIR")[1].Reflectance
           red == Loc(df[r], "Red")[1].Reflectance
           v == Divide(nir - red, nir + red)
       IN  /\ ndvi' = [ndvi EXCEPT ![r] = v]
           /\ Emit(r, <<Event("ndvi", FormatNdvi(v))>>)
    /\ pc' = [pc EXCEPT ![r] = "statshdr"]
    /\ UNCHANGED <<stream, rng, raster, b, df, lonlat, stats, err, geo>>

\* Line 96: the header of the statistics report; the loop of line 97 starts.
StatsHeader(r) ==
    /\ pc[r] = "statshdr"
    /\ Emit(r, <<Event("stats_header", "--- Raster Band Statistics ---")>>)
    /\ b' = [b EXCEPT ![r] = 0]
    /\ pc' = [pc EXCEPT ![r] = "stats"]
    /\ UNCHANGED <<stream, rng, raster, df, lonlat, ndvi, stats, err, geo>>

\* Lines 97-101: one iteration of the statistics loop.
BandStats(r) ==
    /\ pc[r] = "stats"
    /\ b[r] < N_BANDS
    /\ LET band_data == raster[r][b[r]]
           band_name == BANDS[b[r] + 1]
       IN  /\ stats' = [stats EXCEPT ![r] = Append(stats[r],
                    [band |-> band_name, min |-> BandMin(band_data),
                     max |-> BandMax(band_data), mean |-> BandMean(band_data)])]
           /\ Emit(r, <<Event("stat", StatLine(band_name, band_data))>>)
    /\ b' = [b EXCEPT ![r] = b[r] + 1]
    /\ pc' = [pc EXCEPT ![r] = IF b[r] + 1 = N_BANDS THEN "done" ELSE "stats"]
    /\ UNCHANGED <<stream, rng, raster, df, lonlat, ndvi, err, geo>>

Step(r) ==
    \/ Start(r) \/ FillBand(r) \/ ClipRaster(r) \/ ExtractSpectrum(r)
    \/ PrintSpectrum(r) \/ SaveCsv(r) \/ ConfirmCsv(r) \/ SavePlot(r)
    \/ ConfirmPlot(r) \/ ShowPlot(r) \/ ComputeNdvi(r) \/ StatsHeader(r)
    \/ BandStats(r)

NoGeo == [row |-> 0, col |-> 0, x0 |-> 0, y0 |-> 0, xres |-> 0, yres |-> 0,
          center |-> FALSE, called |-> FALSE, xy |-> <<0, 0>>]

RunInit ==
    /\ rng = [r \in Runs |-> 0]
    /\ raster = [r \in Runs |-> Zeros]
    /\ b = [r \in Runs |-> 0]
    /\ pc = [r \in Runs |-> "start"]
    /\ df = [r \in Runs |-> <<>>]
    /\ lonlat = [r \in Runs |-> <<0, 0>>]
    /\ ndvi = [r \in Runs |-> [kind |-> "none", num |-> 0, den |-> 0]]
    /\ stats = [r \in Runs |-> <<>>]
    /\ out = [r \in Runs |-> <<>>]
    /\ err = [r \in Runs |-> "none"]

\* One run of the script, for every stream of variates the generator may give.
Init ==
    /\ stream \in [0 .. (RngPeriod - 1) -> NoiseVals]
    /\ RunInit
    /\ geo = NoGeo

Next == Step(1)

Spec == Init /\ [][Next]_vars

\* Two independent runs of the script on the same installation.
NextTwoRuns == \E r \in Runs : Step(r)

SpecTwoRuns == Init /\ [][NextTwoRuns]_vars

\* rowcol_to_xy as a function of its arguments.
GeoCall ==
    /\ ~geo.called
    /\ geo' = [geo EXCEPT !.called = TRUE,
                          !.xy = rowcol_to_xy(geo.row, geo.col, geo.x0, geo.y0,
                                              geo.xres, geo.yres, geo.center)]
    /\ UNCHANGED <<stream, rng, raster, b, pc, df, lonlat, ndvi, stats, out, err>>

InitGeo ==
    /\ stream = [k \in 0 .. (RngPeriod - 1) |-> 0]
    /\ RunInit
    /\ \E row \in (0 - MaxIdx) .. MaxIdx, col \in (0 - MaxIdx) .. MaxIdx,
          x0 \in {X0, 0}, y0 \in {Y0, -250000},
          xres \in {XRES, 2500}, yres \in {YRES, 30}, center \in BOOLEAN :
          geo = [row |-> row, col |-> col, x0 |-> x0, y0 |-> y0, xres |-> xres,
                 yres |-> yres, center |-> center, called |-> FALSE, xy |-> <<0, 0>>]

NextGeo == GeoCall

SpecGeo == InitGeo /\ [][NextGeo]_vars

\* ------------------------------------------------------------ properties
Started(r) == pc[r] # "start"
Synthesized(r) == pc[r] \notin {"start", "fill", "clip"}
Extracted(r) == pc[r] \notin {"start", "fill", "clip", "extract"}

EventsOf(r, name) == SelectSeq(out[r], LAMBDA e : e.ev = name)

EventNames(r) == [k \in 1 .. Len(out[r]) |-> out[r][k].ev]

RegistryIndex(name) == CHOOSE n \in 1 .. N_BANDS : BANDS[n] = name

Elements(ras) == {ras[k][i][j] : k \in BandIdx, i \in RowIdx, j \in ColIdx}

\* C1: once the raster has been synthesised and clipped, every one of its
\* elements lies in [0, 1], in that state and in every later state of the run,
\* whatever noise was drawn.
C1_RasterInUnitRange ==
    \A r \in Runs : Synthesized(r) =>
        \A v \in Elements(raster[r]) : 0 <= v /\ v <= ONE

\* A finished run whose raster was clipped at both ends and also holds
\* values strictly inside the range.
C1_Witness ==
    /\ pc[1] = "done"
    /\ 0 \in Elements(raster[1])
    /\ ONE \in Elements(raster[1])
    /\ \E v \in Elements(raster[1]) : 0 < v /\ v < ONE

StrictlyAscending(ws) == \A k \in 1 .. (Len(ws) - 1) : ws[k] < ws[k + 1]

WavelengthsOfFrame(frame) == [k \in 1 .. Len(frame) |-> frame[k].Wavelength_nm]

WavelengthsOfRows(rows) == [k \in 1 .. Len(rows) |-> rows[k][2]]

\* C2: the pixel spectrum has exactly 6 rows and is strictly ascending by
\* wavelength, for every pixel of the raster, and so are the table that is
\* printed and the data rows of the CSV that is written.
C2_SpectrumAscendingSixRows ==
    \A r \in Runs :
        /\ \A row \in RowIdx, col \in ColIdx :
              Started(r) =>
                 /\ Len(Spectrum(raster[r], row, col)) = 6
                 /\ StrictlyAscending(WavelengthsOfFrame(Spectrum(raster[r], row, col)))
        /\ Extracted(r) =>
              /\ Len(df[r]) = 6
              /\ StrictlyAscending(WavelengthsOfFrame(df[r]))
        /\ \A k \in 1 .. Len(out[r]) :
              /\ out[r][k].ev = "table" =>
                    /\ Len(out[r][k].data) = 6
                    /\ StrictlyAscending(WavelengthsOfRows(out[r][k].data))
              /\ out[r][k].ev = "csv_file" =>
                    /\ Len(Tail(out[r][k].data)) = 6
                    /\ StrictlyAscending(WavelengthsOfRows(Tail(out[r][k].data)))

\* A run that has printed the table and written the CSV.
C2_Witness ==
    /\ Len(EventsOf(1, "table")) = 1
    /\ Len(EventsOf(1, "csv_file")) = 1
    /\ Len(df[1]) = 6

RasterAtPixel(r, name) == raster[r][RegistryIndex(name) - 1][PIXEL_ROW][PIXEL_COL]

\* C3: the NDVI that is computed and reported is (nir - red) / (nir + red)
\* with nir and red the raster's own values of the bands named NIR and Red at
\* pixel (1, 2); the lookup by name finds exactly one row for each name.
C3_NdviFromNamedBands ==
    \A r \in Runs : ndvi[r].kind # "none" =>
        LET nir == RasterAtPixel(r, "NIR")
            red == RasterAtPixel(r, "Red")
        IN  /\ Len(Loc(df[r], "NIR")) = 1
            /\ Len(Loc(df[r], "Red")) = 1
            /\ Loc(df[r], "NIR")[1].Reflectance = nir
            /\ Loc(df[r], "Red")[1].Reflectance = red
            /\ nir + red # 0 =>
                  /\ ndvi[r].kind = "num"
                  /\ ndvi[r].num = nir - red
                  /\ ndvi[r].den = nir + red
                  /\ Len(EventsOf(r, "ndvi")) = 1
                  /\ EventsOf(r, "ndvi")[1].data =
                        [kind |-> "num", val |-> RoundDiv((nir - red) * 10000, nir + red)]

\* A finished run whose NIR and Red values differ and are both positive.
C3_Witness ==
    /\ pc[1] = "done"
    /\ ndvi[1].kind = "num"
    /\ RasterAtPixel(1, "NIR") > RasterAtPixel(1, "Red")
    /\ RasterAtPixel(1, "Red") > 0
    /\ EventsOf(1, "ndvi")[1].data.val > 0

\* C4: for every integer row and col, inside the raster or not, rowcol_to_xy
\* returns lon = origin_x + (col + 0.5) * x_res, lat = origin_y - (row + 0.5) *
\* y_res when center is true and lon = origin_x + col * x_res, lat = origin_y -
\* row * y_res when it is false; for (1, 2, -59.0, 15.0, 0.01, 0.01, center)
\* the result prints as lon = -58.97500, lat = 14.98500.
C4_RowColToXY ==
    geo.called =>
        /\ geo.center =>
              /\ 2 * geo.xy[1] = 2 * geo.x0 + (2 * geo.col + 1) * geo.xres
              /\ 2 * geo.xy[2] = 2 * geo.y0 - (2 * geo.row + 1) * geo.yres
        /\ ~geo.center =>
              /\ geo.xy[1] - geo.x0 = geo.col * geo.xres
              /\ geo.y0 - geo.xy[2] = geo.row * geo.yres
        /\ ( /\ geo.row = 1 /\ geo.col = 2 /\ geo.x0 = -59000000 /\ geo.y0 = 15000000
             /\ geo.xres = 10000 /\ geo.yres = 10000 /\ geo.center )
           => /\ Format5(geo.xy[1]) = -5897500
              /\ Format5(geo.xy[2]) = 1498500

\* The call rowcol_to_xy(1, 2, -59.0, 15.0, 0.01, 0.01, center=True) has returned.
C4_Witness ==
    /\ geo.called
    /\ geo.row = 1 /\ geo.col = 2 /\ geo.x0 = X0 /\ geo.y0 = Y0
    /\ geo.xres = XRES /\ geo.yres = YRES /\ geo.center
    /\ geo.xy = <<-58975000, 14985000>>

\* C5: for every band the reported statistics, taken over all 9 pixels of the
\* band, satisfy 0.0 <= min <= mean <= max <= 1.0, as computed and as printed
\* with four decimals.
C5_StatsOrdered ==
    \A r \in Runs :
        /\ \A k \in 1 .. Len(stats[r]) :
              LET s == stats[r][k]
              IN  /\ 0 <= s.min
                  /\ s.min * s.mean.den <= s.mean.num
                  /\ s.mean.num <= s.max * s.mean.den
                  /\ s.max <= ONE
                  /\ s.min \in BandValues(raster[r][k - 1])
                  /\ s.max \in BandValues(raster[r][k - 1])
        /\ \A k \in 1 .. Len(out[r]) : out[r][k].ev = "stat" =>
              LET line == out[r][k].data
              IN  /\ 0 <= line.min
                  /\ line.min <= line.mean
                  /\ line.mean <= line.max
                  /\ line.max <= 10000

\* All six bands reported, one of them with min < mean < max and one clipped.
C5_Witness ==
    /\ Len(stats[1]) = 6
    /\ \E k \in 1 .. 6 :
          /\ stats[1][k].min * 9 < stats[1][k].mean.num
          /\ stats[1][k].mean.num < stats[1][k].max * 9
    /\ \E k \in 1 .. 6 : stats[1][k].min = 0

\* C6: two independent runs with the same fixed seed that have reached the
\* same point hold identical rasters, spectra, NDVI values and statistics,
\* and have produced identical output.
C6_Deterministic ==
    (pc[1] = pc[2] /\ b[1] = b[2] /\ err[1] = err[2]) =>
        /\ rng[1] = rng[2]
        /\ raster[1] = raster[2]
        /\ df[1] = df[2]
        /\ ndvi[1] = ndvi[2]
        /\ stats[1] = stats[2]
        /\ out[1] = out[2]

\* Both runs finished, on a raster whose noise differs between two pixels.
C6_Witness ==
    /\ pc[1] = "done"
    /\ pc[2] = "done"
    /\ raster[1][0][0][0] # raster[1][0][0][1] - Grad[0][1]
    /\ out[1] = out[2]

LaterThanCsv == {"csv_msg", "png_file", "png_msg", "show", "ndvi", "stats_header", "stat"}

LaterThanPng == {"png_msg", "show", "ndvi", "stats_header", "stat"}

\* C7: a failed file write is fatal and never recovered from.  After a failed
\* CSV write the run is in its error state with no CSV file, no save
\* confirmation, no plot file, no display, no NDVI and no statistics; after a
\* failed PNG write, with no plot confirmation, display, NDVI or statistics;
\* and a run in its error state stays there and produces nothing more.
C7_WriteFailureFatal ==
    /\ [](\A r \in Runs :
            /\ err[r] = "csv" =>
                  /\ pc[r] = "error"
                  /\ \A k \in 1 .. Len(out[r]) :
                        out[r][k].ev \notin (LaterThanCsv \cup {"csv_file"})
                  /\ ndvi[r].kind = "none"
                  /\ stats[r] = <<>>
            /\ err[r] = "png" =>
                  /\ pc[r] = "error"
                  /\ \A k \in 1 .. Len(out[r]) :
                        out[r][k].ev \notin (LaterThanPng \cup {"png_file"})
                  /\ ndvi[r].kind = "none"
                  /\ stats[r] = <<>>
            /\ pc[r] = "error" => err[r] \in {"csv", "png"})
    /\ [][\A r \in Runs : pc[r] = "error" =>
            /\ pc'[r] = "error"
            /\ err'[r] = err[r]
            /\ out'[r] = out[r]
            /\ ndvi'[r] = ndvi[r]
            /\ stats'[r] = stats[r]]_vars

\* One run stopped by a failed CSV write, the other by a failed PNG write
\* after its CSV confirmation.
C7_Witness ==
    /\ pc[1] = "error" /\ err[1] = "csv"
    /\ pc[2] = "error" /\ err[2] = "png"
    /\ Len(EventsOf(2, "csv_msg")) = 1

\* C8: when nir + red is exactly zero at the extracted pixel the division is
\* still carried out: the NDVI is not-a-number or an infinity, it is printed
\* as such, no number is substituted and no error is raised.
C8_ZeroDenominatorUnguarded ==
    \A r \in Runs :
        (ndvi[r].kind # "none" /\ RasterAtPixel(r, "NIR") + RasterAtPixel(r, "Red") = 0) =>
            /\ ndvi[r].kind \in {"nan", "inf", "-inf"}
            /\ Len(EventsOf(r, "ndvi")) = 1
            /\ EventsOf(r, "ndvi")[1].data.kind = ndvi[r].kind
            /\ err[r] = "none"
            /\ pc[r] \in {"statshdr", "stats", "done"}

\* A run that finished after dividing zero by zero.
C8_Witness ==
    /\ pc[1] = "done"
    /\ RasterAtPixel(1, "NIR") = 0
    /\ RasterAtPixel(1, "Red") = 0
    /\ ndvi[1].kind = "nan"

ExpectedOrder ==
    <<"shape", "crs", "coord", "table", "csv_file", "csv_msg", "png_file",
      "png_msg", "show", "ndvi", "stats_header",
      "stat", "stat", "stat", "stat", "stat", "stat">>

\* How many of the expected events a run at a given point has produced.
Progress(r) ==
    CASE pc[r] \in {"start", "fill", "clip"} -> 0
      [] pc[r] \in {"extract", "print"} -> 1
      [] pc[r] = "csv" -> 4
      [] pc[r] = "csvmsg" -> 5
      [] pc[r] = "plot" -> 6
      [] pc[r] = "plotmsg" -> 7
      [] pc[r] = "show" -> 8
      [] pc[r] = "ndvi" -> 9
      [] pc[r] = "statshdr" -> 10
      [] pc[r] = "stats" -> 11 + b[r]
      [] pc[r] = "done" -> 17
      [] pc[r] = "error" -> IF err[r] = "csv" THEN 4 ELSE 6

\* C9: the stages run in one fixed order, each complete before the next
\* begins: what a run has produced is always the first part of the sequence
\* shape, CRS, coordinate, table, CSV file, CSV confirmation, PNG file, PNG
\* confirmation, display, NDVI, statistics header, six statistics lines, of
\* the length its position in the script gives, and the statistics lines
\* name the bands in registry order.
C9_FixedLinearOrder ==
    \A r \in Runs :
        /\ Len(out[r]) = Progress(r)
        /\ EventNames(r) = SubSeq(ExpectedOrder, 1, Len(out[r]))
        /\ \A k \in 1 .. Len(EventsOf(r, "stat")) :
              EventsOf(r, "stat")[k].data.band = BANDS[k]
        /\ Len(stats[r]) = Len(EventsOf(r, "stat"))

\* A run that went through every stage.
C9_Witness ==
    /\ pc[1] = "done"
    /\ Len(out[1]) = 17
    /\ out[1][17].data.band = "SWIR2"

\* C10: every row of the spectrum is a whole registry row: its wavelength is
\* the registry wavelength of its band name, its reflectance is the raster's
\* value of that band at the pixel, each band is in exactly one row; and the
\* raster is not changed by extraction, NDVI computation or statistics.
C10_RowsIntactRasterUnchanged ==
    /\ [](\A r \in Runs : Extracted(r) =>
            /\ \A k \in 1 .. Len(df[r]) :
                  \E n \in 1 .. N_BANDS :
                     /\ df[r][k].Band = BANDS[n]
                     /\ df[r][k].Wavelength_nm = WAVELENGTH_NM[n]
                     /\ df[r][k].Reflectance = raster[r][n - 1][PIXEL_ROW][PIXEL_COL]
            /\ \A n \in 1 .. N_BANDS :
                  Cardinality({k \in 1 .. Len(df[r]) : df[r][k].Band = BANDS[n]}) = 1)
    /\ [][\A r \in Runs : Synthesized(r) => raster'[r] = raster[r]]_vars

\* A finished run whose spectrum holds different reflectances, and whose
\* raster is not symmetric at the pixel.
C10_Witness ==
    /\ pc[1] = "done"
    /\ Len(df[1]) = 6
    /\ df[1][3].Reflectance # df[1][4].Reflectance
    /\ raster[1][3][PIXEL_ROW][PIXEL_COL] # raster[1][3][PIXEL_COL][PIXEL_ROW]

====
